---- MODULE Spec2Model ----
(***************************************************************************)
(* Activity-timeline reconciliation of frontend/src/App.tsx.               *)
(*                                                                         *)
(* The component keeps three pieces of state: the live timeline            *)
(* (processedEventsTimeline), the per-message archive                      *)
(* (historicalActivities) and the finalize latch                           *)
(* (hasFinalizeEventOccurredRef).  They are driven by four callbacks:      *)
(* onUpdateEvent (one call per streamed update event), the archive         *)
(* useEffect (re-evaluated when thread.messages, thread.isLoading or the   *)
(* timeline changes), handleSubmit and handleCancel.  The stream transport *)
(* (useStream) is an external collaborator: it owns thread.messages and    *)
(* thread.isLoading and decides when events are delivered.                 *)
(*                                                                         *)
(* JavaScript runs each callback to completion, and React applies the      *)
(* queued state updaters in call order before the commit whose effects     *)
(* run, so every callback is one atomic action on the latest state.        *)
(***************************************************************************)
EXTENDS Integers, Sequences, FiniteSets, TLC

(***************************************************************************)
(* JavaScript values of the event payloads.  A string is a sequence of     *)
(* one-character strings so that length and substring are computed; an     *)
(* object is a function from property names to values.                     *)
(***************************************************************************)
Undef == [t |-> "undefined", v |-> 0]

Null == [t |-> "null", v |-> 0]

Bool(b) == [t |-> "boolean", v |-> b]

Num(n) == [t |-> "number", v |-> n]

Str(cs) == [t |-> "string", v |-> cs]

Arr(xs) == [t |-> "array", v |-> xs]

Obj(f) == [t |-> "object", v |-> f]

EmptyObj == Obj([k \in {} |-> Undef])

\* ToBoolean: undefined, null, false, 0 and "" are falsy, the rest truthy.
Truthy(x) ==
  CASE x.t = "undefined" -> FALSE
    [] x.t = "null" -> FALSE
    [] x.t = "boolean" -> x.v
    [] x.t = "number" -> x.v # 0
    [] x.t = "string" -> x.v # <<>>
    [] OTHER -> TRUE

Nullish(x) == x.t \in {"undefined", "null"}

\* a || b
OrElse(a, b) == IF Truthy(a) THEN a ELSE b

\* x.name (also x?.name) on a value that is not null or undefined: an own
\* property of an object, undefined otherwise.
Get(x, name) ==
  IF x.t = "object" /\ name \in DOMAIN x.v THEN x.v[name] ELSE Undef

\* The characters of a sequence of one-character strings as one string.
RECURSIVE Text(_)
Text(cs) == IF cs = <<>> THEN "" ELSE Head(cs) \o Text(Tail(cs))

\* String(x), as a template literal's ${x} computes it.
RECURSIVE ToStr(_)
RECURSIVE JoinFrom(_, _, _)
ToStr(x) ==
  CASE x.t = "undefined" -> "undefined"
    [] x.t = "null" -> "null"
    [] x.t = "boolean" -> (IF x.v THEN "true" ELSE "false")
    [] x.t = "number" -> ToString(x.v)
    [] x.t = "string" -> Text(x.v)
    [] x.t = "array" -> JoinFrom(x.v, 1, ",")
    [] OTHER -> "[object Object]"

\* Array.prototype.join on the elements i.. of xs: null and undefined
\* elements give the empty string.
JoinFrom(xs, i, sep) ==
  IF i > Len(xs) THEN ""
  ELSE (IF Nullish(xs[i]) THEN "" ELSE ToStr(xs[i]))
       \o (IF i < Len(xs) THEN sep ELSE "")
       \o JoinFrom(xs, i + 1, sep)

Join(xs, sep) == JoinFrom(xs, 1, sep)

\* x.length inside a template literal: strings and arrays have a length,
\* every other value prints "undefined".
LengthText(x) ==
  IF x.t \in {"string", "array"} THEN ToString(Len(x.v)) ELSE "undefined"

(***************************************************************************)
(* The event classifier: the if / else-if chain of onUpdateEvent.  A       *)
(* result says whether the handler threw before reaching its end, the      *)
(* processedEvent it built (a sequence of zero or one entry) and whether   *)
(* the branch set hasFinalizeEventOccurredRef.  Titles are written without *)
(* the emoji prefixes of the source strings.                               *)
(***************************************************************************)
TruncateAt == 50

MaxLabels == 3

Threw == [threw |-> TRUE, entry |-> <<>>, finalize |-> FALSE]

\* Fault variant: the chain sets the latch when no branch matched.
Nothing_SetsLatch == [threw |-> FALSE, entry |-> <<>>, finalize |-> TRUE]

Nothing == [threw |-> FALSE, entry |-> <<>>, finalize |-> FALSE]

Made(title, data, fin) ==
  [threw |-> FALSE, entry |-> <<[title |-> title, data |-> data]>>,
   finalize |-> fin]

Min(a, b) == IF a < b THEN a ELSE b

\* event.input_guardrail branch
InputGuardrailBranch(p) ==
  LET isSafe == Get(p, "is_safe_input")
      violations == OrElse(Get(p, "guardrail_violations"), Arr(<<>>))
      originalInput == OrElse(Get(p, "original_input"), Str(<<>>))
  IN IF Truthy(isSafe)
     THEN IF originalInput.t # "string" THEN Threw
          ELSE Made("Input Security Check",
                    "Input validated successfully. Safe to proceed with: \""
                    \o Text(SubSeq(originalInput.v, 1,
                                   Min(TruncateAt, Len(originalInput.v))))
                    \o (IF Len(originalInput.v) > TruncateAt THEN "..." ELSE "")
                    \o "\"",
                    FALSE)
     ELSE IF violations.t # "array" THEN Threw
          ELSE Made("Security Violation Detected",
                    "Input blocked due to: " \o Join(violations.v, ", ")
                    \o ". Original input length: " \o LengthText(originalInput)
                    \o " characters.",
                    FALSE)

\* event.guardrail_block branch
GuardrailBlockBranch ==
  Made("Request Blocked",
       "Request has been blocked by security guardrails for policy violations.",
       FALSE)

\* event.generate_query and event.generate_knowledge_query branches:
\* p?.search_query?.join(", ") || ""
QueryBranch(title, p) ==
  LET sq == Get(p, "search_query")
  IN IF Nullish(sq) THEN Made(title, "", FALSE)
     ELSE IF sq.t # "array" THEN Threw
     ELSE Made(title, Join(sq.v, ", "), FALSE)

\* [...new Set(xs)]: the first occurrence of every value; objects and arrays
\* are compared by identity, so two of them are never the same element.
RECURSIVE Unique(_)
\* Fault variant: repeated labels are kept.
Unique_NoDedup(xs) == xs

Unique(xs) ==
  IF xs = <<>> THEN <<>>
  ELSE LET front == Unique(SubSeq(xs, 1, Len(xs) - 1))
           x == xs[Len(xs)]
       IN IF x.t \in {"boolean", "number", "string"}
             /\ \E i \in 1..Len(front) : front[i] = x
          THEN front ELSE Append(front, x)

\* event.web_research branch
WebResearchBranch(p) ==
  LET sources == OrElse(Get(p, "sources_gathered"), Arr(<<>>))
  IN IF sources.t # "array" THEN Threw
     ELSE IF \E i \in 1..Len(sources.v) : Nullish(sources.v[i]) THEN Threw
     ELSE LET labels == [i \in 1..Len(sources.v) |-> Get(sources.v[i], "label")]
              uniqueLabels == Unique(SelectSeq(labels, Truthy))
              exampleLabels ==
                Join(SubSeq(uniqueLabels, 1, Min(MaxLabels, Len(uniqueLabels))),
                     ", ")
          IN Made("Web Research",
                  "Gathered " \o LengthText(sources) \o " sources. Related to: "
                  \o (IF exampleLabels = "" THEN "N/A" ELSE exampleLabels)
                  \o ".",
                  FALSE)

\* event.classify_query branch
ClassifyQueryBranch(p) ==
  LET needsWebSearch == Truthy(Get(p, "needs_web_search"))
      needsKnowledgeSearch == Truthy(Get(p, "needs_knowledge_search"))
      searchTypeText ==
        IF needsWebSearch /\ needsKnowledgeSearch THEN "Web + Knowledge Search"
        ELSE IF needsWebSearch THEN "Web Search"
        ELSE IF needsKnowledgeSearch THEN "Knowledge Search"
        ELSE "Direct Answer"
  IN Made("Query Classification", "Target Node: " \o searchTypeText, FALSE)

\* x?.[0]
First(x) ==
  IF x.t = "array" /\ x.v # <<>> THEN x.v[1]
  ELSE IF x.t = "string" /\ x.v # <<>> THEN Str(<<x.v[1]>>)
  ELSE Get(x, "0")

\* event.knowledge_search branch
KnowledgeSearchBranch(p) ==
  LET results == OrElse(Get(p, "knowledge_search_result"), Arr(<<>>))
      searchQuery == OrElse(First(Get(p, "search_query")), Str(<<>>))
      numResults == LengthText(results)
  IN Made("Knowledge Search",
          "Searching: \"" \o ToStr(searchQuery) \o "\". Found " \o numResults
          \o " relevant result" \o (IF numResults # "1" THEN "s" ELSE "")
          \o " in internal knowledge base.",
          FALSE)

SufficiencyText(p) ==
  IF Truthy(Get(p, "is_sufficient")) THEN "Sufficient" ELSE "Insufficient"

\* p.knowledge_gap || "No gap identified"
KnowledgeGapText(p) ==
  IF Truthy(Get(p, "knowledge_gap")) THEN ToStr(Get(p, "knowledge_gap"))
  ELSE "No gap identified"

\* event.reflection branch: queriesText is the boolean Array.isArray(...)
ReflectionBranch(p) ==
  LET followUpQueries == OrElse(Get(p, "follow_up_queries"), Arr(<<>>))
      queriesText == ToStr(Bool(followUpQueries.t = "array"))
  IN Made("Reflection",
          "Analysing Web Research Results: \n" \o SufficiencyText(p)
          \o ". \nReason: " \o KnowledgeGapText(p)
          \o ". \nFollow-up Queries: " \o queriesText,
          FALSE)

\* event.knowledge_reflection branch
KnowledgeReflectionBranch(p) ==
  LET followUpQueries == OrElse(Get(p, "follow_up_queries"), Arr(<<>>))
      queriesText ==
        IF followUpQueries.t = "array" THEN Join(followUpQueries.v, ", ")
        ELSE IF ToStr(followUpQueries) # "" THEN ToStr(followUpQueries)
        ELSE "No follow-up queries"
  IN Made("Knowledge Reflection",
          "Analysing Knowledge Search Results: \n" \o SufficiencyText(p)
          \o ". \nReason: " \o KnowledgeGapText(p)
          \o ". \nFollow-up Queries: " \o queriesText,
          FALSE)

\* Fault variant: the finalize branch sets the latch without an entry.
FinalizeAnswerBranch_NoEntry ==
  [threw |-> FALSE, entry |-> <<>>, finalize |-> TRUE]

\* event.finalize_answer branch
FinalizeAnswerBranch ==
  Made("Finalizing Answer", "Composing and presenting the final answer.", TRUE)

\* Fault variant: the knowledge finalize branch without the latch assignment.
FinalizeKnowledgeAnswerBranch_NoLatch ==
  Made("Finalizing Knowledge Answer",
       "Composing and presenting the final knowledge-based answer.", FALSE)

\* event.finalize_knowledge_answer branch
FinalizeKnowledgeAnswerBranch ==
  Made("Finalizing Knowledge Answer",
       "Composing and presenting the final knowledge-based answer.", TRUE)

\* if (event.key): the key's payload is truthy
Has(event, key) == Truthy(Get(event, key))

\* Fault variant: generate_query is tested before guardrail_block.
Classify_QueryBeforeBlock(event) ==
  IF Nullish(event) THEN Threw
  ELSE IF Has(event, "input_guardrail")
    THEN InputGuardrailBranch(Get(event, "input_guardrail"))
  ELSE IF Has(event, "generate_query")
    THEN QueryBranch("Generating Search Queries", Get(event, "generate_query"))
  ELSE IF Has(event, "guardrail_block") THEN GuardrailBlockBranch
  ELSE IF Has(event, "generate_knowledge_query")
    THEN QueryBranch("Generating Knowledge Search Queries",
                     Get(event, "generate_knowledge_query"))
  ELSE IF Has(event, "web_research")
    THEN WebResearchBranch(Get(event, "web_research"))
  ELSE IF Has(event, "classify_query")
    THEN ClassifyQueryBranch(Get(event, "classify_query"))
  ELSE IF Has(event, "knowledge_search")
    THEN KnowledgeSearchBranch(Get(event, "knowledge_search"))
  ELSE IF Has(event, "reflection")
    THEN ReflectionBranch(Get(event, "reflection"))
  ELSE IF Has(event, "knowledge_reflection")
    THEN KnowledgeReflectionBranch(Get(event, "knowledge_reflection"))
  ELSE IF Has(event, "finalize_answer") THEN FinalizeAnswerBranch
  ELSE IF Has(event, "finalize_knowledge_answer")
    THEN FinalizeKnowledgeAnswerBranch
  ELSE Nothing

\* The whole chain: the first key with a truthy payload decides.
Classify(event) ==
  IF Nullish(event) THEN Threw
  ELSE IF Has(event, "input_guardrail")
    THEN InputGuardrailBranch(Get(event, "input_guardrail"))
  ELSE IF Has(event, "guardrail_block") THEN GuardrailBlockBranch
  ELSE IF Has(event, "generate_query")
    THEN QueryBranch("Generating Search Queries", Get(event, "generate_query"))
  ELSE IF Has(event, "generate_knowledge_query")
    THEN QueryBranch("Generating Knowledge Search Queries",
                     Get(event, "generate_knowledge_query"))
  ELSE IF Has(event, "web_research")
    THEN WebResearchBranch(Get(event, "web_research"))
  ELSE IF Has(event, "classify_query")
    THEN ClassifyQueryBranch(Get(event, "classify_query"))
  ELSE IF Has(event, "knowledge_search")
    THEN KnowledgeSearchBranch(Get(event, "knowledge_search"))
  ELSE IF Has(event, "reflection")
    THEN ReflectionBranch(Get(event, "reflection"))
  ELSE IF Has(event, "knowledge_reflection")
    THEN KnowledgeReflectionBranch(Get(event, "knowledge_reflection"))
  ELSE IF Has(event, "finalize_answer") THEN FinalizeAnswerBranch
  ELSE IF Has(event, "finalize_knowledge_answer")
    THEN FinalizeKnowledgeAnswerBranch
  ELSE Nothing

(***************************************************************************)
(* State of the component and of the transport it reads.                   *)
(***************************************************************************)
VARIABLES
  processedEventsTimeline,      \* useState: the live timeline
  historicalActivities,         \* useState: message id -> archived timeline
  hasFinalizeEventOccurredRef,  \* useRef: the finalize latch
  messages,                     \* thread.messages
  isLoading,                    \* thread.isLoading
  delivered,                    \* history: entries produced since the last reset
  finalizeAwaited,              \* history: a finalize event awaits its archive
  lastCall                      \* history: the callback that ran last

vars == <<processedEventsTimeline, historicalActivities,
          hasFinalizeEventOccurredRef, messages, isLoading, delivered,
          finalizeAwaited, lastCall>>

\* Bounds of the model.
MaxTimeline == 2

MaxMessages == 2

\* A message of thread.messages.  hasId is FALSE for a message whose id is
\* undefined.
Message(type, hasId, id) == [type |-> type, hasId |-> hasId, id |-> id]

\* The messages the transport may append; ids are unique within the list.
MessagePool ==
  { Message("human", TRUE, "h1"), Message("ai", TRUE, "a1"),
    Message("ai", TRUE, "a2"), Message("ai", FALSE, "") }

Call(op, arg, wrote, owed, submit) ==
  [op |-> op, arg |-> arg, wrote |-> wrote, owed |-> owed, submit |-> submit]

Init ==
  /\ processedEventsTimeline = <<>>
  /\ historicalActivities = [k \in {} |-> <<>>]
  /\ hasFinalizeEventOccurredRef = FALSE
  /\ messages = <<>>
  /\ isLoading = FALSE
  /\ delivered = <<>>
  /\ finalizeAwaited = FALSE
  /\ lastCall = Call("mount", 0, <<>>, FALSE, "none")

(***************************************************************************)
(* Inputs: the update events the transport may deliver and the arguments   *)
(* of handleSubmit.                                                        *)
(***************************************************************************)
Events ==
  << Obj([finalize_answer |-> Obj([messages |-> Arr(<<>>)])]),
     Obj([generate_query |->
            Obj([search_query |-> Arr(<<Str(<<"q", "1">>), Str(<<"q", "2">>)>>)])]),
     Obj([heartbeat |-> EmptyObj]),
     Obj([generate_query |-> Obj([search_query |-> Str(<<"q", "1">>)])]),
     Obj([finalize_knowledge_answer |-> Obj([messages |-> Arr(<<>>)])]),
     Obj([guardrail_block |-> Bool(TRUE), finalize_answer |-> EmptyObj]),
     Obj([finalize_answer |-> Null]),
     Obj([finalize_answer |-> EmptyObj, finalize_knowledge_answer |-> EmptyObj]),
     Obj([input_guardrail |-> Obj([is_safe_input |-> Bool(FALSE)]),
          finalize_knowledge_answer |-> EmptyObj]),
     Obj([finalize_answer |-> Obj([is_safe_input |-> Bool(TRUE),
                                   search_query |-> Num(7)])]),
     Obj([reflection |-> Null, finalize_knowledge_answer |-> Str(<<"x">>)]),
     Obj([knowledge_reflection |-> Obj([is_sufficient |-> Bool(TRUE)])]),
     Obj([web_research |-> Obj([sources_gathered |-> Num(3)]),
          finalize_answer |-> EmptyObj]),
     Null,
     EmptyObj,
     Obj([finalize |-> EmptyObj, messages |-> Arr(<<>>)]),
     Obj([input_guardrail |->
            Obj([is_safe_input |-> Bool(FALSE),
                 guardrail_violations |-> Str(<<"p">>)])]),
     Obj([input_guardrail |->
            Obj([is_safe_input |-> Bool(TRUE), original_input |-> Num(42)])]),
     Obj([web_research |-> Obj([sources_gathered |-> Str(<<"x">>)])]),
     Obj([reflection |->
            Obj([is_sufficient |-> Bool(FALSE),
                 knowledge_gap |-> Str(<<"g">>),
                 follow_up_queries |-> Arr(<<Str(<<"a">>), Str(<<"b">>)>>)])]),
     Obj([knowledge_reflection |->
            Obj([follow_up_queries |-> Arr(<<Str(<<"a">>), Str(<<"b">>)>>)])]),
     Obj([reflection |-> EmptyObj]),
     Obj([knowledge_reflection |->
            Obj([follow_up_queries |-> Str(<<"c">>)])]),
     Obj([web_research |->
            Obj([sources_gathered |->
                   Arr(<<Obj([label |-> Str(<<"A">>)]),
                         Obj([label |-> Str(<<"A">>)]),
                         Obj([label |-> Str(<<"B">>)])>>)])]),
     Obj([web_research |->
            Obj([sources_gathered |->
                   Arr(<<Obj([label |-> Str(<<"A">>)]),
                         Obj([label |-> Str(<<>>)]),
                         Obj([value |-> Str(<<"u">>)]),
                         Obj([label |-> Str(<<"B">>)]),
                         Obj([label |-> Str(<<"A">>)]),
                         Obj([label |-> Str(<<"C">>)]),
                         Obj([label |-> Str(<<"D">>)])>>)])]),
     Obj([web_research |-> EmptyObj]),
     Obj([web_research |-> Obj([sources_gathered |-> Arr(<<>>)])]),
     Obj([guardrail_block |-> Bool(TRUE),
          generate_query |-> Obj([search_query |-> Arr(<<Str(<<"q">>)>>)])]),
     Obj([classify_query |-> Obj([needs_web_search |-> Bool(TRUE)]),
          knowledge_search |-> Obj([search_query |-> Arr(<<Str(<<"k">>)>>)]),
          reflection |-> EmptyObj]) >>

\* The events delivered in the full state machine: a finalize event, an
\* event with another entry and an event without a known key.
StreamEvents == {1, 2, 3}

AllEvents == DOMAIN Events

\* submittedInputValue, as characters
Inputs ==
  << <<>>, <<" ", "\t">>, <<" ", "h", "i", "\n">> >>

Efforts == {"medium", "other"}

Models == {"gemini-2.5-flash"}

\* Date.now().toString()
Clock == {"1700000000000"}

(***************************************************************************)
(* onUpdateEvent (the callback given to useStream)                         *)
(***************************************************************************)
\* Fault variant: the new entry is put in front of the earlier ones.
AppendEntry_Prepend(prevEvents, processedEvent) ==
  <<processedEvent>> \o prevEvents

\* setProcessedEventsTimeline((prevEvents) => [...prevEvents, processedEvent])
AppendEntry(prevEvents, processedEvent) == Append(prevEvents, processedEvent)

\* hasFinalizeEventOccurredRef.current after the chain ran
LatchAfterEvent(latch, result) == IF result.finalize THEN TRUE ELSE latch

\* The classification of every event of Events.
Classified == [i \in DOMAIN Events |-> Classify(Events[i])]

OnUpdateEvent(i) ==
  LET result == Classified[i]
      appended == ~result.threw /\ result.entry # <<>>
  IN /\ hasFinalizeEventOccurredRef' =
          LatchAfterEvent(hasFinalizeEventOccurredRef, result)
     /\ processedEventsTimeline' =
          IF appended
          THEN AppendEntry(processedEventsTimeline, result.entry[1])
          ELSE processedEventsTimeline
     /\ delivered' =
          IF appended THEN delivered \o result.entry ELSE delivered
     /\ finalizeAwaited' = (finalizeAwaited \/ result.finalize)
     /\ lastCall' = Call("onUpdateEvent", i, <<>>, FALSE, "none")
     /\ UNCHANGED <<historicalActivities, messages, isLoading>>

(***************************************************************************)
(* The archive effect: useEffect(..., [thread.messages, thread.isLoading,  *)
(* processedEventsTimeline])                                               *)
(***************************************************************************)
\* hasFinalizeEventOccurredRef.current && !thread.isLoading &&
\* thread.messages.length > 0
IdleAfterFinalize(latch, loading, msgs) ==
  latch /\ ~loading /\ Len(msgs) > 0

\* Fault variant: the author of the last message is not tested.
Archivable_AnyAuthor(lastMessage) ==
  lastMessage.hasId /\ lastMessage.id # ""

\* lastMessage && lastMessage.type === "ai" && lastMessage.id
Archivable(lastMessage) ==
  lastMessage.type = "ai" /\ lastMessage.hasId /\ lastMessage.id # ""

\* Fault variant: the archived copy misses the newest entry.
Archived_WithoutLast(prev, id, timeline) ==
  [k \in DOMAIN prev \cup {id} |->
     IF k = id THEN SubSeq(timeline, 1, Len(timeline) - 1) ELSE prev[k]]

\* Fault variant: the earlier keys are not spread into the new archive.
Archived_Replacing(prev, id, timeline) == [k \in {id} |-> timeline]

\* (prev) => ({ ...prev, [lastMessage.id]: [...processedEventsTimeline] })
Archived(prev, id, timeline) ==
  [k \in DOMAIN prev \cup {id} |-> IF k = id THEN timeline ELSE prev[k]]

\* Fault variant: the effect never clears the latch.
LatchAfterIdle_Kept(latch, lastMessage) == latch

\* hasFinalizeEventOccurredRef.current after the body of the outer if
LatchAfterIdle(latch, lastMessage) == FALSE

\* A finalize event awaits its archive and this evaluation sees an idle
\* transport whose last message is agent-authored with a defined id.
ArchiveOwed ==
  /\ finalizeAwaited
  /\ ~isLoading
  /\ messages # <<>>
  /\ messages[Len(messages)].type = "ai"
  /\ messages[Len(messages)].hasId

\* Fault variant: the effect empties the live timeline when it archives.
ArchiveOnIdle_ClearsTimeline ==
  /\ IF IdleAfterFinalize(hasFinalizeEventOccurredRef, isLoading, messages)
     THEN LET lastMessage == messages[Len(messages)]
          IN /\ historicalActivities' =
                  IF Archivable(lastMessage)
                  THEN Archived(historicalActivities, lastMessage.id,
                                processedEventsTimeline)
                  ELSE historicalActivities
             /\ hasFinalizeEventOccurredRef' =
                  LatchAfterIdle(hasFinalizeEventOccurredRef, lastMessage)
             /\ lastCall' =
                  Call("useEffect", 0,
                       IF Archivable(lastMessage) THEN <<lastMessage.id>>
                       ELSE <<>>,
                       ArchiveOwed, "none")
     ELSE /\ UNCHANGED <<historicalActivities, hasFinalizeEventOccurredRef>>
          /\ lastCall' = Call("useEffect", 0, <<>>, ArchiveOwed, "none")
  /\ finalizeAwaited' = (finalizeAwaited /\ ~ArchiveOwed)
  /\ processedEventsTimeline' =
       IF /\ IdleAfterFinalize(hasFinalizeEventOccurredRef, isLoading, messages)
          /\ Archivable(messages[Len(messages)])
       THEN <<>> ELSE processedEventsTimeline
  /\ UNCHANGED <<messages, isLoading, delivered>>

ArchiveOnIdle ==
  /\ IF IdleAfterFinalize(hasFinalizeEventOccurredRef, isLoading, messages)
     THEN LET lastMessage == messages[Len(messages)]
          IN /\ historicalActivities' =
                  IF Archivable(lastMessage)
                  THEN Archived(historicalActivities, lastMessage.id,
                                processedEventsTimeline)
                  ELSE historicalActivities
             /\ hasFinalizeEventOccurredRef' =
                  LatchAfterIdle(hasFinalizeEventOccurredRef, lastMessage)
             /\ lastCall' =
                  Call("useEffect", 0,
                       IF Archivable(lastMessage) THEN <<lastMessage.id>>
                       ELSE <<>>,
                       ArchiveOwed, "none")
     ELSE /\ UNCHANGED <<historicalActivities, hasFinalizeEventOccurredRef>>
          /\ lastCall' = Call("useEffect", 0, <<>>, ArchiveOwed, "none")
  /\ finalizeAwaited' = (finalizeAwaited /\ ~ArchiveOwed)
  /\ UNCHANGED <<processedEventsTimeline, messages, isLoading, delivered>>

(***************************************************************************)
(* handleSubmit and handleCancel                                           *)
(***************************************************************************)
Whitespace == {" ", "\t", "\n", "\r"}

\* submittedInputValue.trim()
RECURSIVE Trim(_)
\* Fault variant: the input is tested without trimming.
Trim_None(cs) == cs

Trim(cs) ==
  IF cs = <<>> THEN <<>>
  ELSE IF Head(cs) \in Whitespace THEN Trim(Tail(cs))
  ELSE IF cs[Len(cs)] \in Whitespace THEN Trim(SubSeq(cs, 1, Len(cs) - 1))
  ELSE cs

\* the switch on effort
EffortParams(effort) ==
  CASE effort = "low" -> [initial_search_query_count |-> 1, max_research_loops |-> 1]
    [] effort = "medium" -> [initial_search_query_count |-> 3, max_research_loops |-> 3]
    [] effort = "high" -> [initial_search_query_count |-> 5, max_research_loops |-> 10]
    [] OTHER -> [initial_search_query_count |-> 0, max_research_loops |-> 0]

\* the argument of thread.submit
SubmitPayload(msgs, effort, model, now) ==
  [messages |-> Append(msgs, Message("human", TRUE, now)),
   initial_search_query_count |-> EffortParams(effort).initial_search_query_count,
   max_research_loops |-> EffortParams(effort).max_research_loops,
   reasoning_model |-> model]

\* thread.submit(payload): the transport starts a stream and reports loading
ThreadSubmit(payload) == TRUE

\* Fault variant: thread.submit is called before the reset.
SubmitSteps_SubmitFirst(timeline, latch, archive) ==
  [after |-> [timeline |-> <<>>, latch |-> FALSE, archive |-> archive],
   atSubmit |-> [timeline |-> timeline, latch |-> latch, archive |-> archive]]

\* Fault variant: the submission also empties the archive.
SubmitSteps_ClearsArchive(timeline, latch, archive) ==
  LET reset == [timeline |-> <<>>, latch |-> FALSE,
                archive |-> [k \in {} |-> <<>>]]
  IN [after |-> reset, atSubmit |-> reset]

\* Fault variant: the submission empties the timeline but keeps the latch.
SubmitSteps_LatchKept(timeline, latch, archive) ==
  LET reset == [timeline |-> <<>>, latch |-> latch, archive |-> archive]
  IN [after |-> reset, atSubmit |-> reset]

\* The statements of handleSubmit after the guard, in order: the component
\* state they leave and the live state at the moment thread.submit is called.
SubmitSteps(timeline, latch, archive) ==
  LET reset == [timeline |-> <<>>, latch |-> FALSE, archive |-> archive]
  IN [after |-> reset, atSubmit |-> reset]

HandleSubmit(n, effort, model, now) ==
  IF Trim(Inputs[n]) = <<>>
  THEN /\ lastCall' = Call("handleSubmit", n, <<>>, FALSE, "none")
       /\ UNCHANGED <<processedEventsTimeline, historicalActivities,
                      hasFinalizeEventOccurredRef, messages, isLoading,
                      delivered, finalizeAwaited>>
  ELSE LET steps == SubmitSteps(processedEventsTimeline,
                                hasFinalizeEventOccurredRef,
                                historicalActivities)
       IN /\ processedEventsTimeline' = steps.after.timeline
          /\ hasFinalizeEventOccurredRef' = steps.after.latch
          /\ historicalActivities' = steps.after.archive
          /\ isLoading' = ThreadSubmit(SubmitPayload(messages, effort, model, now))
          /\ delivered' = <<>>
          /\ finalizeAwaited' = FALSE
          /\ lastCall' =
               Call("handleSubmit", n, <<>>, FALSE,
                    IF steps.atSubmit.timeline = <<>> /\ ~steps.atSubmit.latch
                    THEN "afterReset" ELSE "beforeReset")
          /\ UNCHANGED messages

\* thread.stop(); window.location.reload(): the page is mounted afresh
\* The record of a handleCancel call: the transport call it made and what the
\* local state held when it was called.
CancelCall(transport) ==
  [op |-> "handleCancel", arg |-> 0, wrote |-> <<>>, owed |-> FALSE,
   submit |-> "none", transport |-> transport,
   before |-> [timeline |-> Len(processedEventsTimeline),
               latch |-> hasFinalizeEventOccurredRef,
               archive |-> DOMAIN historicalActivities]]

\* Fault variant: the abort is forwarded but the page is not reloaded.
HandleCancel_StopOnly ==
  /\ isLoading' = FALSE
  /\ lastCall' = CancelCall("stop")
  /\ UNCHANGED <<processedEventsTimeline, historicalActivities,
                 hasFinalizeEventOccurredRef, messages, delivered,
                 finalizeAwaited>>

\* thread.stop() and then window.location.reload(): the transport is told to
\* abort and the page starts again from its constructed state.
HandleCancel ==
  /\ processedEventsTimeline' = <<>>
  /\ historicalActivities' = [k \in {} |-> <<>>]
  /\ hasFinalizeEventOccurredRef' = FALSE
  /\ messages' = <<>>
  /\ isLoading' = FALSE
  /\ delivered' = <<>>
  /\ finalizeAwaited' = FALSE
  /\ lastCall' = CancelCall("stop")

(***************************************************************************)
(* The transport (useStream): it appends messages and changes isLoading at *)
(* times of its own choosing.                                              *)
(***************************************************************************)
StreamMessage(m) ==
  /\ Len(messages) < MaxMessages
  /\ \A i \in 1..Len(messages) : messages[i] # m
  /\ messages' = Append(messages, m)
  /\ lastCall' = Call("useStream", 0, <<>>, FALSE, "none")
  /\ UNCHANGED <<processedEventsTimeline, historicalActivities,
                 hasFinalizeEventOccurredRef, isLoading, delivered,
                 finalizeAwaited>>

StreamLoading(b) ==
  /\ isLoading # b
  /\ isLoading' = b
  /\ lastCall' = Call("useStream", 0, <<>>, FALSE, "none")
  /\ UNCHANGED <<processedEventsTimeline, historicalActivities,
                 hasFinalizeEventOccurredRef, messages, delivered,
                 finalizeAwaited>>

DeliverEvent ==
  \E i \in StreamEvents :
    Len(processedEventsTimeline) < MaxTimeline /\ OnUpdateEvent(i)

Submit ==
  \E n \in DOMAIN Inputs, effort \in Efforts, model \in Models, now \in Clock :
    HandleSubmit(n, effort, model, now)

AppendMessage == \E m \in MessagePool : StreamMessage(m)

ChangeLoading == \E b \in BOOLEAN : StreamLoading(b)

Next ==
  \/ DeliverEvent
  \/ ArchiveOnIdle
  \/ Submit
  \/ HandleCancel
  \/ AppendMessage
  \/ ChangeLoading

Spec == Init /\ [][Next]_vars

(***************************************************************************)
(* The classifier on its own: every event of Events is delivered, between  *)
(* submissions, to a component whose transport stays silent.               *)
(***************************************************************************)
DeliverAnyEvent ==
  \E i \in AllEvents :
    Len(processedEventsTimeline) < MaxTimeline /\ OnUpdateEvent(i)

NextEvents == DeliverAnyEvent \/ Submit

SpecEvents == Init /\ [][NextEvents]_vars

(***************************************************************************)
(* Properties                                                              *)
(***************************************************************************)
LastMessage == messages[Len(messages)]

\* The last message is agent-authored and its id is defined.
LastIsAgentWithId ==
  messages # <<>> /\ LastMessage.type = "ai" /\ LastMessage.hasId

\* Some key of the archive is new or has a new value in this step.
ArchiveWritten ==
  \E k \in DOMAIN historicalActivities' :
    \/ k \notin DOMAIN historicalActivities
    \/ historicalActivities'[k] # historicalActivities[k]

FinalizeTitles == {"Finalizing Answer", "Finalizing Knowledge Answer"}

HasFinalizeEntry(timeline) ==
  \E i \in 1..Len(timeline) : timeline[i].title \in FinalizeTitles

\* C1: the archive is written only by an evaluation of the effect that finds
\* the latch true, the transport idle and a last message that is
\* agent-authored with a defined id; the key written is that message's id
\* and is not the id of any human message.
C1_ArchiveOnlyWhenFinalizedIdleAgent ==
  [][(ArchiveWritten \/ lastCall'.wrote # <<>>) =>
       /\ lastCall'.op = "useEffect"
       /\ hasFinalizeEventOccurredRef
       /\ ~isLoading
       /\ LastIsAgentWithId
       /\ lastCall'.wrote = <<LastMessage.id>>
       /\ \A k \in DOMAIN historicalActivities' :
            k # LastMessage.id =>
              /\ k \in DOMAIN historicalActivities
              /\ historicalActivities'[k] = historicalActivities[k]
       /\ \A i \in 1..Len(messages) :
            messages[i].type = "human" => messages[i].id # LastMessage.id]_vars

C1_Witness ==
  /\ lastCall.op = "useEffect"
  /\ lastCall.wrote = <<"a1">>
  /\ "a1" \in DOMAIN historicalActivities
  /\ \E i \in 1..Len(messages) : messages[i].type = "human"

\* C2: an evaluation of the effect that finds the latch true and the
\* transport idle, but a last message that is not agent-authored or has no
\* id, writes nothing to the archive and leaves the latch true.
C2_LatchKeptWithoutArchive ==
  [][(/\ lastCall'.op = "useEffect"
      /\ hasFinalizeEventOccurredRef
      /\ ~isLoading
      /\ messages # <<>>
      /\ ~LastIsAgentWithId) =>
       /\ historicalActivities' = historicalActivities
       /\ lastCall'.wrote = <<>>
       /\ hasFinalizeEventOccurredRef']_vars

\* C3: once a finalize event was processed, with no submission or cancel
\* since, the first evaluation of the effect that finds the transport idle
\* and the last message agent-authored with a defined id leaves that id a
\* key of the archive, whatever was evaluated before it.
C3_FinalizeLeadsToArchive ==
  (lastCall.op = "useEffect" /\ lastCall.owed) =>
    LastMessage.id \in DOMAIN historicalActivities

\* C4: with the latch true, the transport idle and an agent last message
\* with an id, a first evaluation of the effect archives under that id and
\* clears the latch; a second evaluation right after it writes nothing and
\* leaves the archive, the live timeline and the latch unchanged.
C4_ArchiveOnce ==
  [][/\ (/\ lastCall'.op = "useEffect"
         /\ hasFinalizeEventOccurredRef
         /\ ~isLoading
         /\ LastIsAgentWithId) =>
          /\ lastCall'.wrote = <<LastMessage.id>>
          /\ historicalActivities'[LastMessage.id] = processedEventsTimeline
          /\ ~hasFinalizeEventOccurredRef'
     /\ (/\ lastCall.op = "useEffect"
         /\ lastCall.wrote # <<>>
         /\ lastCall'.op = "useEffect") =>
          /\ lastCall'.wrote = <<>>
          /\ UNCHANGED <<historicalActivities, processedEventsTimeline,
                         hasFinalizeEventOccurredRef>>]_vars

C4_Witness ==
  /\ lastCall.op = "useEffect"
  /\ lastCall.wrote = <<>>
  /\ ~hasFinalizeEventOccurredRef
  /\ ~isLoading
  /\ LastIsAgentWithId
  /\ LastMessage.id \in DOMAIN historicalActivities
  /\ historicalActivities[LastMessage.id] = processedEventsTimeline
  /\ processedEventsTimeline # <<>>

\* C5: the live timeline is, in delivery order, the entries of exactly the
\* events that produced an entry since the timeline was last reset.
C5_TimelineIsDeliveredEntries == processedEventsTimeline = delivered

C5_Witness ==
  /\ lastCall.op = "onUpdateEvent"
  /\ Len(processedEventsTimeline) = 2
  /\ processedEventsTimeline[1] # processedEventsTimeline[2]
  /\ "a1" \in DOMAIN historicalActivities
  /\ historicalActivities["a1"] # <<>>
  /\ historicalActivities["a1"][1] # processedEventsTimeline[1]

\* A submitted input without any character other than whitespace.
IsBlank(cs) == \A i \in 1..Len(cs) : cs[i] \in Whitespace

\* C6 as stated: after every call of handleSubmit, whatever its arguments,
\* the live timeline is empty and the latch is false, and the reset precedes
\* thread.submit.
C6_EverySubmitResets ==
  lastCall.op = "handleSubmit" =>
    /\ processedEventsTimeline = <<>>
    /\ ~hasFinalizeEventOccurredRef
    /\ lastCall.submit = "afterReset"

\* C6 (amended): after every call of handleSubmit whose input has a
\* character other than whitespace, the live timeline is empty and the latch
\* is false, and thread.submit was called after the reset.
C6_NonBlankSubmitResets ==
  (lastCall.op = "handleSubmit" /\ ~IsBlank(Inputs[lastCall.arg])) =>
    /\ processedEventsTimeline = <<>>
    /\ ~hasFinalizeEventOccurredRef
    /\ lastCall.submit = "afterReset"
    /\ isLoading

C6_Witness ==
  /\ lastCall.op = "handleSubmit"
  /\ ~IsBlank(Inputs[lastCall.arg])
  /\ lastCall.submit = "afterReset"
  /\ DOMAIN historicalActivities # {}

\* C7: when the effect archives under message id m, the value stored under
\* m is the whole live timeline of that moment, every entry delivered since
\* the last reset and the finalize entry among them, and the latch is false
\* afterwards.
C7_ArchiveIsWholeTimeline ==
  (lastCall.op = "useEffect" /\ lastCall.wrote # <<>>) =>
    /\ lastCall.wrote[1] \in DOMAIN historicalActivities
    /\ historicalActivities[lastCall.wrote[1]] = processedEventsTimeline
    /\ historicalActivities[lastCall.wrote[1]] = delivered
    /\ HasFinalizeEntry(historicalActivities[lastCall.wrote[1]])
    /\ ~hasFinalizeEventOccurredRef

C7_Witness ==
  /\ lastCall.op = "useEffect"
  /\ lastCall.wrote = <<"a1">>
  /\ Len(historicalActivities["a1"]) = 2
  /\ ~HasFinalizeEntry(<<historicalActivities["a1"][1]>>)

\* C8: onUpdateEvent and handleSubmit leave the archive as it was: entries
\* appended to the live timeline, or its reset at the next submission, do
\* not change a value archived before.
C8_EventAndSubmitKeepArchive ==
  [][lastCall'.op \in {"onUpdateEvent", "handleSubmit"} =>
       historicalActivities' = historicalActivities]_vars

C8_Witness ==
  /\ lastCall.op = "handleSubmit"
  /\ lastCall.submit = "afterReset"
  /\ processedEventsTimeline = <<>>
  /\ "a1" \in DOMAIN historicalActivities
  /\ historicalActivities["a1"] # <<>>

\* C9 as stated: in every step other than a cancel, a key of the archive
\* stays a key and keeps its value.
C9_ArchiveNeverOverwritten ==
  [][lastCall'.op # "handleCancel" =>
       \A k \in DOMAIN historicalActivities :
         /\ k \in DOMAIN historicalActivities'
         /\ historicalActivities'[k] = historicalActivities[k]]_vars

\* C9 (amended): in every step other than a cancel, a key of the archive
\* stays a key; its value changes only when the effect archives under that
\* same id again, and then becomes the live timeline of that moment.
C9_KeysKeptValueOnlyRearchived ==
  [][lastCall'.op # "handleCancel" =>
       \A k \in DOMAIN historicalActivities :
         /\ k \in DOMAIN historicalActivities'
         /\ historicalActivities'[k] # historicalActivities[k] =>
              /\ lastCall'.op = "useEffect"
              /\ lastCall'.wrote = <<k>>
              /\ historicalActivities'[k] = processedEventsTimeline]_vars

C9_Witness ==
  /\ lastCall.op = "useEffect"
  /\ lastCall.wrote = <<"a2">>
  /\ DOMAIN historicalActivities = {"a1", "a2"}
  /\ historicalActivities["a1"] # historicalActivities["a2"]

FinalizeKeys == {"finalize_answer", "finalize_knowledge_answer"}

\* The keys the chain tests before the finalize keys.
EarlierKeys ==
  {"input_guardrail", "guardrail_block", "generate_query",
   "generate_knowledge_query", "web_research", "classify_query",
   "knowledge_search", "reflection", "knowledge_reflection"}

CarriesFinalizeKey(event) ==
  event.t = "object" /\ FinalizeKeys \cap DOMAIN event.v # {}

\* A finalize key has a truthy payload and no key tested before it has one.
FinalizeDecides(event) ==
  /\ event.t = "object"
  /\ \E k \in FinalizeKeys \cap DOMAIN event.v : Truthy(event.v[k])
  /\ \A k \in EarlierKeys \cap DOMAIN event.v : ~Truthy(event.v[k])

\* C10 as stated: processing any event that carries a finalize key, whatever
\* else it carries, sets the latch.
C10_FinalizeKeySetsLatch ==
  (lastCall.op = "onUpdateEvent" /\ CarriesFinalizeKey(Events[lastCall.arg])) =>
    hasFinalizeEventOccurredRef

\* C10 (amended): processing an event sets the latch when a finalize key of
\* the event has a truthy payload and none of the keys the chain tests
\* before the finalize keys has one, whatever the payloads contain.
C10_DecidingFinalizeKeySetsLatch ==
  (lastCall.op = "onUpdateEvent" /\ FinalizeDecides(Events[lastCall.arg])) =>
    hasFinalizeEventOccurredRef

C10_Witness ==
  /\ lastCall.op = "onUpdateEvent"
  /\ lastCall.arg = 11
  /\ hasFinalizeEventOccurredRef
  /\ HasFinalizeEntry(processedEventsTimeline)

KnownKeys == EarlierKeys \cup FinalizeKeys

\* An event object without any of the keys the chain tests.
NoKnownKey(event) ==
  event.t = "object" /\ KnownKeys \cap DOMAIN event.v = {}

\* C11: an event with none of the known keys gives no entry and no finalize
\* signal, and processing it leaves the live timeline, the latch and the
\* archive unchanged.
C11_UnknownEventIgnored ==
  [][(lastCall'.op = "onUpdateEvent" /\ NoKnownKey(Events[lastCall'.arg])) =>
       /\ ~Classified[lastCall'.arg].threw
       /\ Classified[lastCall'.arg].entry = <<>>
       /\ ~Classified[lastCall'.arg].finalize
       /\ UNCHANGED <<processedEventsTimeline, hasFinalizeEventOccurredRef,
                      historicalActivities>>]_vars

C11_Witness ==
  /\ lastCall.op = "onUpdateEvent"
  /\ NoKnownKey(Events[lastCall.arg])
  /\ DOMAIN Events[lastCall.arg].v # {}
  /\ Len(processedEventsTimeline) = 1
  /\ ~hasFinalizeEventOccurredRef

\* An event object in which some known key has a truthy payload.
HasStagePayload(event) ==
  event.t = "object" /\ \E k \in KnownKeys \cap DOMAIN event.v : Truthy(event.v[k])

\* C12: processing an event with a stage payload never raises and yields an
\* entry, whatever the types of the payload's nested fields.
C12_ClassifierNeverRaises ==
  (lastCall.op = "onUpdateEvent" /\ HasStagePayload(Events[lastCall.arg])) =>
    /\ ~Classified[lastCall.arg].threw
    /\ Classified[lastCall.arg].entry # <<>>

\* C13: handleCancel forwards the abort to the transport (thread.stop) and
\* leaves the live timeline empty, the latch false and the archive empty,
\* whatever they held when it was called.
C13_CancelResetsEverything ==
  lastCall.op = "handleCancel" =>
    /\ lastCall.transport = "stop"
    /\ processedEventsTimeline = <<>>
    /\ ~hasFinalizeEventOccurredRef
    /\ DOMAIN historicalActivities = {}

C13_Witness ==
  /\ lastCall.op = "handleCancel"
  /\ lastCall.transport = "stop"
  /\ lastCall.before.timeline = MaxTimeline
  /\ lastCall.before.latch
  /\ lastCall.before.archive # {}
  /\ processedEventsTimeline = <<>>

ReflectionTitles == {"Reflection", "Knowledge Reflection"}

\* The payload of the reflection key that made the entry with this title.
ReflectionPayload(event, title) ==
  IF title = "Reflection" THEN event.v["reflection"]
  ELSE event.v["knowledge_reflection"]

ReflectionHeader(title) ==
  IF title = "Reflection" THEN "Analysing Web Research Results: \n"
  ELSE "Analysing Knowledge Search Results: \n"

\* The follow-up part as documented: the queries joined with ", " when they
\* are a list, the fallback phrase otherwise.
ExpectedFollowUp(p) ==
  LET q == Get(p, "follow_up_queries")
  IN IF q.t = "array" THEN Join(q.v, ", ") ELSE "No follow-up queries"

\* C14: the entry of a reflection event (general or knowledge) ends with the
\* follow-up queries joined with ", " when they are a list and with
\* "No follow-up queries" when the field is absent or not a list.
C14_FollowUpQueriesText ==
  (/\ lastCall.op = "onUpdateEvent"
   /\ Classified[lastCall.arg].entry # <<>>
   /\ Classified[lastCall.arg].entry[1].title \in ReflectionTitles) =>
    LET entry == Classified[lastCall.arg].entry[1]
        p == ReflectionPayload(Events[lastCall.arg], entry.title)
    IN entry.data = ReflectionHeader(entry.title) \o SufficiencyText(p)
                    \o ". \nReason: " \o KnowledgeGapText(p)
                    \o ". \nFollow-up Queries: " \o ExpectedFollowUp(p)

\* The gathered sources of a web-research event that made an entry.
SourcesOf(event) ==
  LET s == Get(event.v["web_research"], "sources_gathered")
  IN IF s.t = "array" THEN s.v ELSE <<>>

NonEmptyLabel(l) == l.t = "string" /\ l.v # <<>>

\* The non-empty labels of the sources i.., each at its first occurrence.
RECURSIVE FirstOccurrencesFrom(_, _)
FirstOccurrencesFrom(sources, i) ==
  IF i > Len(sources) THEN <<>>
  ELSE LET l == Get(sources[i], "label")
       IN (IF NonEmptyLabel(l)
              /\ \A j \in 1..(i - 1) : Get(sources[j], "label") # l
           THEN <<l>> ELSE <<>>)
          \o FirstOccurrencesFrom(sources, i + 1)

\* C15: the entry of a web-research event reports the number of all gathered
\* sources and the distinct non-empty labels in first-occurrence order, at
\* most 3 of them, joined with ", ", or "N/A" when there is none.
C15_WebResearchSummary ==
  (/\ lastCall.op = "onUpdateEvent"
   /\ Classified[lastCall.arg].entry # <<>>
   /\ Classified[lastCall.arg].entry[1].title = "Web Research") =>
    LET sources == SourcesOf(Events[lastCall.arg])
        distinct == FirstOccurrencesFrom(sources, 1)
        shown == [i \in 1..Min(3, Len(distinct)) |-> distinct[i]]
    IN Classified[lastCall.arg].entry[1].data =
         "Gathered " \o ToString(Len(sources)) \o " sources. Related to: "
         \o (IF distinct = <<>> THEN "N/A" ELSE Join(shown, ", ")) \o "."

\* Reached by the event with seven sources: repeated, empty and missing
\* labels, and more than three distinct ones.
C15_Witness ==
  /\ lastCall.op = "onUpdateEvent"
  /\ Classified[lastCall.arg].entry # <<>>
  /\ Classified[lastCall.arg].entry[1].title = "Web Research"
  /\ Len(SourcesOf(Events[lastCall.arg])) > MaxLabels + 1
  /\ Len(FirstOccurrencesFrom(SourcesOf(Events[lastCall.arg]), 1)) > MaxLabels
  /\ Len(FirstOccurrencesFrom(SourcesOf(Events[lastCall.arg]), 1))
       < Len(SourcesOf(Events[lastCall.arg])) - 2
  /\ processedEventsTimeline # <<>>
  /\ processedEventsTimeline[Len(processedEventsTimeline)]
       = Classified[lastCall.arg].entry[1]

\* The order in which the keys are documented to be examined.
Priority ==
  <<"input_guardrail", "guardrail_block", "generate_query",
    "generate_knowledge_query", "web_research", "classify_query",
    "knowledge_search", "reflection", "knowledge_reflection",
    "finalize_answer", "finalize_knowledge_answer">>

\* The least element of a set of indices, as a set of at most one key.
FirstOf(indices) ==
  {Priority[i] : i \in {n \in indices : \A m \in indices : n <= m}}

\* The first key of the priority order that the event carries.
FirstPresentKey(event) ==
  FirstOf({i \in 1..Len(Priority) : Priority[i] \in DOMAIN event.v})

\* The first key of the priority order whose payload is truthy.
FirstTruthyKey(event) ==
  FirstOf({i \in 1..Len(Priority) :
             Priority[i] \in DOMAIN event.v /\ Truthy(event.v[Priority[i]])})

\* The event cut down to the given keys.
OnlyKeys(event, keys) == Obj([k \in keys |-> event.v[k]])

\* This step is onUpdateEvent and does to the timeline and the latch exactly
\* what the event cut down to the given keys would do.
ActsAsOnlyKeys(keys) ==
  LET alone == Classify(OnlyKeys(Events[lastCall'.arg], keys))
  IN /\ Len(processedEventsTimeline') <= Len(processedEventsTimeline) + 1
     /\ processedEventsTimeline' = processedEventsTimeline \o alone.entry
     /\ hasFinalizeEventOccurredRef' =
          (hasFinalizeEventOccurredRef \/ alone.finalize)

\* C16 as stated: an event appends at most one entry, and it is the entry of
\* the first key in the priority order that the event carries; the keys
\* after it have no effect.
C16_FirstCarriedKeyDecides ==
  [][(lastCall'.op = "onUpdateEvent" /\ Events[lastCall'.arg].t = "object") =>
       ActsAsOnlyKeys(FirstPresentKey(Events[lastCall'.arg]))]_vars

\* C16, amended: an event appends at most one entry, and it is the entry of
\* the first key in the priority order whose payload is truthy; the keys
\* after it have no effect.
C16_FirstTruthyKeyDecides ==
  [][(lastCall'.op = "onUpdateEvent" /\ Events[lastCall'.arg].t = "object") =>
       ActsAsOnlyKeys(FirstTruthyKey(Events[lastCall'.arg]))]_vars

\* Reached by the event with three truthy keys: only the entry of the first
\* of them is in the timeline.
C16_Witness ==
  /\ lastCall.op = "onUpdateEvent"
  /\ Events[lastCall.arg].t = "object"
  /\ Cardinality({k \in KnownKeys \cap DOMAIN Events[lastCall.arg].v :
                    Truthy(Events[lastCall.arg].v[k])}) = 3
  /\ Len(processedEventsTimeline) = 1
  /\ processedEventsTimeline[1].title = "Query Classification"
  /\ ~hasFinalizeEventOccurredRef

IsPrefix(xs, ys) ==
  Len(xs) <= Len(ys) /\ \A i \in 1..Len(xs) : xs[i] = ys[i]

\* C17: an evaluation of the archive effect leaves the live timeline as it
\* was, and the timeline loses entries only in a handleSubmit or handleCancel
\* step: what was archived stays in the live timeline until then.
C17_ArchiveKeepsTimeline ==
  [][/\ lastCall'.op = "useEffect" =>
          processedEventsTimeline' = processedEventsTimeline
     /\ \/ IsPrefix(processedEventsTimeline, processedEventsTimeline')
        \/ /\ lastCall'.op \in {"handleSubmit", "handleCancel"}
           /\ processedEventsTimeline' = <<>>]_vars

C17_Witness ==
  /\ lastCall.op = "useEffect"
  /\ lastCall.wrote # <<>>
  /\ Len(processedEventsTimeline) = MaxTimeline
  /\ processedEventsTimeline = historicalActivities[lastCall.wrote[1]]
  /\ DOMAIN historicalActivities = {"a1", "a2"}

\* The effect has just archived, and the finalize event's entry is the only
\* one delivered since the submission.
LoneFinalizeArchived ==
  /\ lastCall.op = "useEffect"
  /\ lastCall.wrote # <<>>
  /\ Len(delivered) = 1

\* C18 as stated: when the finalize event is the only classified event of
\* the turn, the archive operation that follows stores an empty timeline.
C18_LoneFinalizeArchivesNothing ==
  LoneFinalizeArchived => historicalActivities[lastCall.wrote[1]] = <<>>

\* C18, amended: when the finalize event is the only classified event of the
\* turn, the archive operation that follows stores the one finalize entry;
\* no archived value is ever empty.
C18_LoneFinalizeArchivesItsEntry ==
  /\ LoneFinalizeArchived =>
       /\ Len(historicalActivities[lastCall.wrote[1]]) = 1
       /\ historicalActivities[lastCall.wrote[1]][1].title \in FinalizeTitles
  /\ \A k \in DOMAIN historicalActivities : Len(historicalActivities[k]) >= 1

C18_Witness ==
  /\ LoneFinalizeArchived
  /\ lastCall.wrote = <<"a1">>
  /\ historicalActivities["a1"] = delivered
  /\ delivered[1].title = "Finalizing Answer"

\* C19: whenever the latch is true the live timeline holds a finalize entry,
\* and every value stored in the archive holds at least one finalize entry.
C19_LatchImpliesFinalizeEntry ==
  /\ hasFinalizeEventOccurredRef => HasFinalizeEntry(processedEventsTimeline)
  /\ \A k \in DOMAIN historicalActivities :
       HasFinalizeEntry(historicalActivities[k])

\* The latch is true over a timeline whose finalize entry is not the last
\* one, while an earlier turn's value is in the archive.
C19_Witness ==
  /\ hasFinalizeEventOccurredRef
  /\ Len(processedEventsTimeline) = MaxTimeline
  /\ processedEventsTimeline[1].title \in FinalizeTitles
  /\ processedEventsTimeline[MaxTimeline].title \notin FinalizeTitles
  /\ DOMAIN historicalActivities # {}
  /\ lastCall.op = "onUpdateEvent"

\* C20: a handleSubmit call whose input is empty or only whitespace changes
\* neither the live timeline, the latch nor the archive (nor what the
\* transport holds) and does not call thread.submit.
C20_BlankSubmitIsNoOp ==
  [][(lastCall'.op = "handleSubmit" /\ IsBlank(Inputs[lastCall'.arg])) =>
       /\ lastCall'.submit = "none"
       /\ UNCHANGED <<processedEventsTimeline, hasFinalizeEventOccurredRef,
                      historicalActivities, messages, isLoading>>]_vars

C20_Witness ==
  /\ lastCall.op = "handleSubmit"
  /\ IsBlank(Inputs[lastCall.arg])
  /\ Inputs[lastCall.arg] # <<>>
  /\ lastCall.submit = "none"
  /\ Len(processedEventsTimeline) = MaxTimeline
  /\ hasFinalizeEventOccurredRef
  /\ DOMAIN historicalActivities # {}
  /\ ~isLoading
====
